---- MODULE Spec2Model ----
(***************************************************************************)
(* A model of the one-request-per-connection HTTP server of src/main.rs.   *)
(*                                                                         *)
(* Text is modelled as a sequence of one-character strings, so that the    *)
(* byte-level operations of the program (prefix tests, splitting on a      *)
(* separator, decimal formatting, framing by CRLF) are computed rather     *)
(* than assumed.  Option values are sets of at most one element, Result    *)
(* values are records with an ok field.                                    *)
(***************************************************************************)
EXTENDS Naturals, Sequences, FiniteSets, TLC

(***************************************************************************)
(* Bounds of the model.                                                    *)
(***************************************************************************)
\* Connections (handling units) the accept loop spawns in SpecConc.
MaxConns == 2
\* Length of the text appended to a route prefix to form a request path.
MaxSuffixLen == 1
\* Number of header lines a generated request carries.
MaxHeaderLines == 2

(***************************************************************************)
(* Option and Result.                                                      *)
(***************************************************************************)
None == {}
Some(x) == {x}
unwrap(o) == CHOOSE x \in o : TRUE

Ok(x) == [ok |-> TRUE, val |-> x]
Err(e) == [ok |-> FALSE, err |-> e]

(***************************************************************************)
(* Text literals.                                                          *)
(***************************************************************************)
SP == <<" ">>
CRLF == <<"\r", "\n">>
SLASH == <<"/">>
COLON_SP == <<":", " ">>

S_GET == <<"G", "E", "T">>
S_POST == <<"P", "O", "S", "T">>
S_ROOT == <<"/">>
S_USER_AGENT_PATH == <<"/", "u", "s", "e", "r", "-", "a", "g", "e", "n", "t">>
S_ECHO_PREFIX == <<"/", "e", "c", "h", "o", "/">>
S_FILES_PREFIX == <<"/", "f", "i", "l", "e", "s", "/">>
S_USER_AGENT == <<"U", "s", "e", "r", "-", "A", "g", "e", "n", "t">>
S_CONTENT_TYPE == <<"C", "o", "n", "t", "e", "n", "t", "-", "T", "y", "p", "e">>
S_CONTENT_LENGTH ==
    <<"C", "o", "n", "t", "e", "n", "t", "-", "L", "e", "n", "g", "t", "h">>
S_TEXT_PLAIN == <<"t", "e", "x", "t", "/", "p", "l", "a", "i", "n">>
S_OCTET_STREAM ==
    <<"a", "p", "p", "l", "i", "c", "a", "t", "i", "o", "n", "/",
      "o", "c", "t", "e", "t", "-", "s", "t", "r", "e", "a", "m">>
S_DIRECTORY_FLAG == <<"-", "-", "d", "i", "r", "e", "c", "t", "o", "r", "y">>

CODE_200_OK == <<"2", "0", "0", " ", "O", "K">>
CODE_400_BAD_REQUEST ==
    <<"4", "0", "0", " ", "B", "a", "d", " ", "R", "e", "q", "u", "e", "s", "t">>
CODE_404_NOT_FOUND ==
    <<"4", "0", "4", " ", "N", "o", "t", " ", "F", "o", "u", "n", "d">>
CODE_500_INTERNAL_SERVER_ERROR ==
    <<"5", "0", "0", " ", "I", "n", "t", "e", "r", "n", "a", "l", " ",
      "S", "e", "r", "v", "e", "r", " ", "E", "r", "r", "o", "r">>

(***************************************************************************)
(* String operations of the standard library, as the program uses them.    *)
(***************************************************************************)
starts_with(s, p) == Len(s) >= Len(p) /\ SubSeq(s, 1, Len(p)) = p

ends_with(s, p) ==
    Len(s) >= Len(p) /\ SubSeq(s, Len(s) - Len(p) + 1, Len(s)) = p

strip_prefix(s, p) ==
    IF starts_with(s, p) THEN Some(SubSeq(s, Len(p) + 1, Len(s))) ELSE None

strip_suffix(s, p) ==
    IF ends_with(s, p) THEN Some(SubSeq(s, 1, Len(s) - Len(p))) ELSE None

\* Position of the first occurrence of p in s, or 0: at[i] is the first at
\* or after i.
find(s, p) ==
    LET at[i \in 1..(Len(s) + 1)] ==
            IF i + Len(p) > Len(s) + 1 THEN 0
            ELSE IF SubSeq(s, i, i + Len(p) - 1) = p THEN i
            ELSE at[i + 1]
    IN  at[1]

\* str::split(sep): always at least one token; adjacent separators give
\* empty tokens.  toks[i, j] are the tokens of s from i on, the search for
\* the next separator being at j.
split(s, sep) ==
    LET toks[i \in 1..(Len(s) + 1), j \in 1..(Len(s) + 1)] ==
            IF j + Len(sep) > Len(s) + 1 THEN <<SubSeq(s, i, Len(s))>>
            ELSE IF SubSeq(s, j, j + Len(sep) - 1) = sep
            THEN <<SubSeq(s, i, j - 1)>> \o toks[j + Len(sep), j + Len(sep)]
            ELSE toks[i, j + 1]
    IN  toks[1, 1]

\* str::split_once(sep): the text before and after the first occurrence.
split_once(s, sep) ==
    LET i == find(s, sep)
    IN  IF i = 0 THEN None
        ELSE Some(<<SubSeq(s, 1, i - 1), SubSeq(s, i + Len(sep), Len(s))>>)

Digit(d) == CASE d = 0 -> "0" [] d = 1 -> "1" [] d = 2 -> "2" [] d = 3 -> "3"
              [] d = 4 -> "4" [] d = 5 -> "5" [] d = 6 -> "6" [] d = 7 -> "7"
              [] d = 8 -> "8" [] d = 9 -> "9"

\* usize::to_string: decimal, no leading zeros, "0" for zero.
RECURSIVE to_string(_)
to_string(n) ==
    IF n < 10 THEN <<Digit(n)>> ELSE to_string(n \div 10) \o <<Digit(n % 10)>>

\* HashMap::insert.
insert(h, k, v) == [x \in (DOMAIN h) \cup {k} |-> IF x = k THEN v ELSE h[x]]

EmptyMap == [x \in {} |-> <<>>]

(***************************************************************************)
(* Config.                                                                 *)
(***************************************************************************)
parse_config(args) ==
    IF Len(args) = 3 /\ args[2] = S_DIRECTORY_FLAG
    THEN [directory |-> Some(args[3])]
    ELSE [directory |-> None]

(***************************************************************************)
(* HttpResponse and its builders.                                          *)
(***************************************************************************)
DefaultResponse ==
    [version |-> <<>>, code |-> <<>>, headers |-> EmptyMap, content |-> <<>>]

in_response_to(rsp, req) == [rsp EXCEPT !.version = req.version]

with_code(rsp, code) == [rsp EXCEPT !.code = code]

with_content(rsp, content) ==
    [rsp EXCEPT
        !.content = content,
        !.headers = insert(insert(rsp.headers, S_CONTENT_TYPE, S_TEXT_PLAIN),
                           S_CONTENT_LENGTH, to_string(Len(content)))]

\* Mutant: the body is set and its length is not recorded.
with_binary_content_no_length(rsp, content) ==
    [rsp EXCEPT
        !.headers = insert(rsp.headers, S_CONTENT_TYPE, S_OCTET_STREAM),
        !.content = content]

with_binary_content(rsp, content) ==
    [rsp EXCEPT
        !.headers = insert(insert(rsp.headers, S_CONTENT_TYPE, S_OCTET_STREAM),
                           S_CONTENT_LENGTH, to_string(Len(content))),
        !.content = content]

(***************************************************************************)
(* The route handlers.  fs is the filesystem: a map from the names of the  *)
(* readable files to their bytes; fs::read fails on every other name.      *)
(***************************************************************************)
fs_read(fs, filename) ==
    IF filename \in DOMAIN fs THEN Ok(fs[filename]) ELSE Err("io")

handle_post(req) ==
    with_code(in_response_to(DefaultResponse, req), CODE_404_NOT_FOUND)

\* Mutant: the body is the whole path, the prefix not stripped.
handle_echo_whole_path(req) ==
    with_content(with_code(in_response_to(DefaultResponse, req), CODE_200_OK),
                 req.path)

\* Mutant: an empty message is a bad request.
handle_echo_empty_400(req) ==
    IF req.path = S_ECHO_PREFIX
    THEN with_code(in_response_to(DefaultResponse, req), CODE_400_BAD_REQUEST)
    ELSE with_content(
             with_code(in_response_to(DefaultResponse, req), CODE_200_OK),
             SubSeq(req.path, Len(S_ECHO_PREFIX) + 1, Len(req.path)))

handle_echo(req) ==
    LET msg == strip_prefix(req.path, S_ECHO_PREFIX)
    IN  IF msg # None
        THEN with_content(
                 with_code(in_response_to(DefaultResponse, req), CODE_200_OK),
                 unwrap(msg))
        ELSE with_code(in_response_to(DefaultResponse, req), CODE_400_BAD_REQUEST)

\* Mutant: a missing base directory is reported as a missing file.
handle_files_no_dir_404(req, cfg, fs) ==
    LET rsp == in_response_to(DefaultResponse, req)
        filename == strip_prefix(req.path, S_FILES_PREFIX)
    IN  IF cfg.directory = None \/ filename = None
        THEN with_code(rsp, CODE_404_NOT_FOUND)
        ELSE LET file_content ==
                     fs_read(fs, unwrap(cfg.directory) \o SLASH \o unwrap(filename))
             IN  IF ~file_content.ok
                 THEN with_code(rsp, CODE_404_NOT_FOUND)
                 ELSE with_binary_content(with_code(rsp, CODE_200_OK),
                                          file_content.val)

handle_files(req, cfg, fs) ==
    LET rsp == in_response_to(DefaultResponse, req)
        filename == strip_prefix(req.path, S_FILES_PREFIX)
    IN  IF cfg.directory = None
        THEN with_code(rsp, CODE_500_INTERNAL_SERVER_ERROR)
        ELSE IF filename = None
        THEN with_code(rsp, CODE_400_BAD_REQUEST)
        ELSE LET full == unwrap(cfg.directory) \o SLASH \o unwrap(filename)
                 file_content == fs_read(fs, full)
             IN  IF ~file_content.ok
                 THEN with_code(rsp, CODE_404_NOT_FOUND)
                 ELSE with_binary_content(with_code(rsp, CODE_200_OK),
                                          file_content.val)

\* Mutant: the header is looked up under its lower-case name as well.
handle_user_agent_any_case(req) ==
    LET lower == <<"u", "s", "e", "r", "-", "a", "g", "e", "n", "t">>
        found == {k \in {S_USER_AGENT, lower} : k \in DOMAIN req.headers}
    IN  IF found # {}
        THEN with_content(
                 with_code(in_response_to(DefaultResponse, req), CODE_200_OK),
                 req.headers[CHOOSE k \in found : TRUE])
        ELSE with_code(in_response_to(DefaultResponse, req), CODE_400_BAD_REQUEST)

handle_user_agent(req) ==
    IF S_USER_AGENT \in DOMAIN req.headers
    THEN with_content(
             with_code(in_response_to(DefaultResponse, req), CODE_200_OK),
             req.headers[S_USER_AGENT])
    ELSE with_code(in_response_to(DefaultResponse, req), CODE_400_BAD_REQUEST)

\* Mutant: the root route answers with an empty text body and its headers.
handle_get_root_text(req, cfg, fs) ==
    LET rsp == in_response_to(DefaultResponse, req)
    IN  IF req.path = S_ROOT THEN with_content(with_code(rsp, CODE_200_OK), <<>>)
        ELSE IF req.path = S_USER_AGENT_PATH THEN handle_user_agent(req)
        ELSE IF starts_with(req.path, S_ECHO_PREFIX) THEN handle_echo(req)
        ELSE IF starts_with(req.path, S_FILES_PREFIX)
        THEN handle_files(req, cfg, fs)
        ELSE with_code(rsp, CODE_404_NOT_FOUND)

\* Mutant: the echo and files routes match without their trailing slash.
handle_get_short_prefix(req, cfg, fs) ==
    LET rsp == in_response_to(DefaultResponse, req)
    IN  IF req.path = S_ROOT THEN with_code(rsp, CODE_200_OK)
        ELSE IF req.path = S_USER_AGENT_PATH THEN handle_user_agent(req)
        ELSE IF starts_with(req.path, <<"/", "e", "c", "h", "o">>)
        THEN handle_echo(req)
        ELSE IF starts_with(req.path, <<"/", "f", "i", "l", "e", "s">>)
        THEN handle_files(req, cfg, fs)
        ELSE with_code(rsp, CODE_404_NOT_FOUND)

handle_get(req, cfg, fs) ==
    LET rsp == in_response_to(DefaultResponse, req)
    IN  IF req.path = S_ROOT THEN with_code(rsp, CODE_200_OK)
        ELSE IF req.path = S_USER_AGENT_PATH THEN handle_user_agent(req)
        ELSE IF starts_with(req.path, S_ECHO_PREFIX) THEN handle_echo(req)
        ELSE IF starts_with(req.path, S_FILES_PREFIX)
        THEN handle_files(req, cfg, fs)
        ELSE with_code(rsp, CODE_404_NOT_FOUND)

\* Mutant: every method is routed as GET.
handle_any_method(req, cfg, fs) == handle_get(req, cfg, fs)

handle(req, cfg, fs) ==
    IF req.method = "Get" THEN handle_get(req, cfg, fs) ELSE handle_post(req)

(***************************************************************************)
(* The request parser, on the lines read_http_request returned.            *)
(***************************************************************************)
\* Mutant: a name that is in the map already keeps its value.
collect_line_first_wins(acc, line) ==
    LET kv == split_once(line, COLON_SP)
    IN  IF kv = None \/ unwrap(kv)[1] \in DOMAIN acc THEN acc
        ELSE insert(acc, unwrap(kv)[1], unwrap(kv)[2])

\* One item of the iterator: filter_map drops the line without ": ", the
\* map takes the pair of the others.
collect_line(acc, line) ==
    LET kv == split_once(line, COLON_SP)
    IN  IF kv = None THEN acc ELSE insert(acc, unwrap(kv)[1], unwrap(kv)[2])

\* collect::<HashMap>: the pairs are inserted in the order of the lines;
\* map[i] holds the first i of them.
collect_headers(ls, acc) ==
    LET map[i \in 0..Len(ls)] ==
            IF i = 0 THEN acc
            ELSE CHOOSE m \in {collect_line(h, ls[i]) : h \in {map[i - 1]}} : TRUE
    IN  map[Len(ls)]

\* Mutant: a start line must have exactly three tokens, which is checked
\* first.
read_request_three_tokens(lines) ==
    IF ~lines.ok THEN lines
    ELSE IF lines.val = <<>> THEN Err("start_line not found")
    ELSE LET start_line == split(Head(lines.val), SP)
             method == start_line[1]
         IN  IF Len(start_line) # 3 THEN Err("malformed start line")
             ELSE IF method # S_GET /\ method # S_POST
             THEN Err("Unexpected method")
             ELSE Ok([method |-> IF method = S_GET THEN "Get" ELSE "Post",
                      path |-> start_line[2],
                      version |-> start_line[3],
                      headers |-> collect_headers(Tail(lines.val), EmptyMap)])

\* read_request after its call of read_http_request, whose Result is lines.
read_request(lines) ==
    IF ~lines.ok THEN lines
    ELSE IF lines.val = <<>> THEN Err("start_line not found")
    ELSE LET start_line == split(Head(lines.val), SP)
             method == start_line[1]
         IN  IF method # S_GET /\ method # S_POST THEN Err("Unexpected method")
             ELSE IF Len(start_line) < 2 THEN Err("path not found")
             ELSE IF Len(start_line) < 3 THEN Err("version not found")
             ELSE Ok([method |-> IF method = S_GET THEN "Get" ELSE "Post",
                      path |-> start_line[2],
                      version |-> start_line[3],
                      headers |-> collect_headers(Tail(lines.val), EmptyMap)])

(***************************************************************************)
(* The response serializer: the data of its two write_all calls.  The      *)
(* header map is iterated in an order the program does not control; order  *)
(* is one enumeration of its keys.                                         *)
(***************************************************************************)
Orders(h) ==
    {o \in [1..Cardinality(DOMAIN h) -> DOMAIN h] :
        \A i, j \in DOMAIN o : i # j => o[i] # o[j]}

\* Mutant: name and value are joined by a colon alone.
RECURSIVE join_headers_colon(_, _)
join_headers_colon(h, order) ==
    IF order = <<>> THEN <<>>
    ELSE Head(order) \o <<":">> \o h[Head(order)] \o CRLF
         \o join_headers_colon(h, Tail(order))

RECURSIVE join_headers(_, _)
join_headers(h, order) ==
    IF order = <<>> THEN <<>>
    ELSE Head(order) \o COLON_SP \o h[Head(order)] \o CRLF
         \o join_headers(h, Tail(order))

\* Mutant: the status line always names HTTP/1.1.
response_head_http11(response, order) ==
    <<"H", "T", "T", "P", "/", "1", ".", "1">> \o SP \o response.code \o CRLF
    \o join_headers(response.headers, order) \o CRLF

response_head(response, order) ==
    response.version \o SP \o response.code \o CRLF
    \o join_headers(response.headers, order) \o CRLF

(***************************************************************************)
(* What the environment supplies: command lines, a filesystem, and the     *)
(* byte scripts clients send.                                              *)
(***************************************************************************)
S_PROG == <<"s">>
S_DIR == <<"d">>
S_HTTP11 == <<"H", "T", "T", "P", "/", "1", ".", "1">>
S_HTTP10 == <<"H", "T", "T", "P", "/", "1", ".", "0">>

ArgLists == { <<S_PROG>>, <<S_PROG, S_DIRECTORY_FLAG, S_DIR>> }

\* One readable file d/a of twelve bytes, CR and LF among them.
FileSystem ==
    [n \in {S_DIR \o SLASH \o <<"a">>} |->
        <<"0", "1", "\r", "\n", "4", "5", "6", "7", "8", "9", "a", "b">>]

Words(A, n) == UNION {[1..k -> A] : k \in 0..n}

PathHeads ==
    { <<>>, S_ROOT, S_USER_AGENT_PATH,
      <<"/", "e", "c", "h", "o">>, S_ECHO_PREFIX,
      <<"/", "f", "i", "l", "e", "s">>, S_FILES_PREFIX }

Paths == {h \o w : h \in PathHeads, w \in Words({"a", "/"}, MaxSuffixLen)}

HeaderLineChoices ==
    { S_USER_AGENT \o COLON_SP \o <<"f", "o", "o">>,
      <<"u", "s", "e", "r", "-", "a", "g", "e", "n", "t">> \o COLON_SP \o <<"f">>,
      <<"X", ":", "y">> }

HeaderBlocks == Words(HeaderLineChoices, MaxHeaderLines)

StartLines ==
    {m \o SP \o p \o SP \o S_HTTP11 : m \in {S_GET, S_POST}, p \in Paths}

RECURSIVE Framed(_)
Framed(ls) == IF ls = <<>> THEN CRLF ELSE Head(ls) \o CRLF \o Framed(Tail(ls))

Script(bytes, close) == [bytes |-> bytes, close |-> close]

\* Well-framed requests: a start line of three tokens, header lines, the
\* empty line.
FramedScripts ==
    {Script(Framed(<<sl>> \o hs), FALSE) : sl \in StartLines, hs \in HeaderBlocks}

S_KEEP_ALIVE ==
    <<"C", "o", "n", "n", "e", "c", "t", "i", "o", "n", ":", " ",
      "k", "e", "e", "p", "-", "a", "l", "i", "v", "e">>
S_GET_ROOT_11 == S_GET \o SP \o S_ROOT \o SP \o S_HTTP11
S_GET_ECHO_A_10 == S_GET \o SP \o S_ECHO_PREFIX \o <<"a">> \o SP \o S_HTTP10

\* Requests that are truncated, ill-framed, ill-formed or followed by
\* further bytes.
OddScripts ==
    { Script(<<>>, TRUE),
      Script(<<>>, FALSE),
      Script(CRLF, FALSE),
      Script(S_GET \o CRLF \o CRLF, FALSE),
      Script(S_GET \o SP \o S_ROOT \o CRLF \o CRLF, FALSE),
      Script(<<"g", "e", "t">> \o SP \o S_ROOT \o SP \o S_HTTP11 \o CRLF \o CRLF,
             FALSE),
      Script(<<"P", "U", "T">> \o SP \o S_ROOT \o SP \o S_HTTP11 \o CRLF \o CRLF,
             FALSE),
      Script(<<"P", "U", "T">> \o CRLF \o CRLF, FALSE),
      Script(S_GET_ROOT_11 \o SP \o <<"x">> \o CRLF \o CRLF, FALSE),
      Script(S_GET_ECHO_A_10 \o CRLF \o CRLF, FALSE),
      Script(S_GET_ROOT_11 \o <<"\n">> \o CRLF, FALSE),
      Script(S_GET_ROOT_11 \o CRLF, TRUE),
      Script(S_GET_ROOT_11 \o CRLF, FALSE),
      Script(S_GET_ROOT_11 \o CRLF \o <<"X">>, TRUE),
      Script(S_GET_ROOT_11 \o CRLF \o S_KEEP_ALIVE \o CRLF \o CRLF, FALSE),
      Script(S_GET \o SP \o S_USER_AGENT_PATH \o SP \o S_HTTP11 \o CRLF
             \o S_USER_AGENT \o COLON_SP \o <<"f", "o", "o">> \o CRLF
             \o S_USER_AGENT \o COLON_SP \o <<"b">> \o CRLF \o CRLF, FALSE),
      Script(S_GET \o SP \o <<"/", "n", "o", "p", "e">> \o SP \o S_HTTP11
             \o CRLF \o CRLF, FALSE),
      Script(S_GET \o SP \o S_ECHO_PREFIX \o <<"a", "/", "b">> \o SP \o S_HTTP11
             \o CRLF \o CRLF, FALSE),
      Script(S_POST \o SP \o S_ROOT \o SP \o S_HTTP11 \o CRLF \o CRLF
             \o <<"b", "o", "d", "y">>, TRUE),
      Script(S_GET_ROOT_11 \o CRLF \o CRLF \o S_GET_ECHO_A_10 \o CRLF \o CRLF,
             FALSE) }

Scripts == FramedScripts \cup OddScripts

\* The scripts of the specification with several connections.
ConcScripts ==
    { Script(S_GET_ECHO_A_10 \o CRLF \o CRLF, FALSE),
      Script(<<"P", "U", "T">> \o CRLF \o CRLF, FALSE),
      Script(S_GET_ROOT_11 \o CRLF, FALSE),
      Script(<<>>, TRUE) }

(***************************************************************************)
(* State.                                                                  *)
(*   args, config  the command line and the Config parsed from it          *)
(*   files         the filesystem                                          *)
(*   mainpc        the main thread: "incoming" in the accept loop          *)
(*   units         one record per spawned handling unit, in spawn order    *)
(***************************************************************************)
VARIABLES args, config, files, mainpc, units

vars == <<args, config, files, mainpc, units>>

Unit(stream, script) ==
    [ stream |-> stream,        \* the item of listener.incoming(): "Ok" | "Err"
      input |-> script.bytes,   \* every byte the client has to send
      tosend |-> script.bytes,  \* the bytes the client has not sent yet
      close |-> script.close,   \* the client closes its side after sending
      eof |-> FALSE,            \* the client has closed its side
      sock |-> <<>>,            \* bytes received and not yet read
      taken |-> 0,              \* bytes read from the socket so far
      rbuf |-> <<>>,            \* BufReader: bytes read and not yet returned
      lines |-> <<>>,           \* read_http_request: result
      pc |-> "spawned",
      req |-> None,
      res |-> None,
      out |-> <<>>,             \* bytes of the completed write_all calls
      torn |-> FALSE,           \* a write_all failed part-way
      err |-> None,             \* the error the thread panicked with
      wcalls |-> 0 ]            \* calls of write_response

Ids == 1..Len(units)

Init ==
    /\ args \in ArgLists
    /\ config = parse_config(args)
    /\ files = FileSystem
    /\ mainpc = "incoming"
    /\ units = <<>>

(***************************************************************************)
(* The clients.  A client sends its script a line at a time (through the   *)
(* next LF, or all that is left when there is none) and may then close its *)
(* side.  Nothing reaches a connection the server has closed.              *)
(***************************************************************************)
LF == <<"\n">>

Terminal(u) == u.pc \in {"finished", "panicked"}

ClientSend(c) ==
    LET u == units[c]
        i == find(u.tosend, LF)
        n == IF i = 0 THEN Len(u.tosend) ELSE i
    IN  /\ u.stream = "Ok" /\ ~Terminal(u)
        /\ u.tosend # <<>>
        /\ units' = [units EXCEPT
                        ![c].sock = u.sock \o SubSeq(u.tosend, 1, n),
                        ![c].tosend = SubSeq(u.tosend, n + 1, Len(u.tosend))]
        /\ UNCHANGED <<args, config, files, mainpc>>

ClientClose(c) ==
    LET u == units[c]
    IN  /\ u.stream = "Ok" /\ ~Terminal(u)
        /\ u.tosend = <<>> /\ u.close /\ ~u.eof
        /\ units' = [units EXCEPT ![c].eof = TRUE]
        /\ UNCHANGED <<args, config, files, mainpc>>

(***************************************************************************)
(* main: the accept loop.  Each item of listener.incoming(), a stream or   *)
(* an error, is moved into a thread of its own; the loop never ends.       *)
(***************************************************************************)
Incoming(menu, limit) ==
    /\ mainpc = "incoming"
    /\ Len(units) < limit
    /\ \E s \in menu : units' = Append(units, Unit("Ok", s))
    /\ UNCHANGED <<args, config, files, mainpc>>

IncomingErr(limit) ==
    /\ mainpc = "incoming"
    /\ Len(units) < limit
    /\ units' = Append(units, Unit("Err", Script(<<>>, FALSE)))
    /\ UNCHANGED <<args, config, files, mainpc>>

(***************************************************************************)
(* The handling unit: the closure given to thread::spawn.                  *)
(***************************************************************************)
\* The stream is dropped, by a return or by an unwinding panic: the
\* connection closes and what was received and not read is discarded.
Drop(u, pc) ==
    [u EXCEPT !.pc = pc, !.sock = <<>>, !.rbuf = <<>>, !.lines = <<>>]

\* Mutant: a panic aborts the process, every thread with it.
panic_aborts(us, c, e) ==
    [d \in DOMAIN us |->
        IF us[d].pc \in {"finished", "panicked"} THEN us[d]
        ELSE Drop([us[d] EXCEPT !.err = Some(e)], "panicked")]

\* expect() on an Err e: the panic unwinds the thread of unit c.
panic(us, c, e) == [us EXCEPT ![c] = Drop([@ EXCEPT !.err = Some(e)], "panicked")]

\* Mutant: the closure runs in the accept loop itself, one stream after
\* the other, instead of in a thread of its own.
UnitStart_inline(c) ==
    /\ units[c].pc = "spawned"
    /\ \A b \in 1..(c - 1) : units[b].pc \in {"finished", "panicked"}
    /\ units' = [units EXCEPT ![c] =
                    IF units[c].stream = "Ok"
                    THEN [@ EXCEPT !.pc = "read_request"]
                    ELSE Drop(@, "finished")]
    /\ UNCHANGED <<args, config, files, mainpc>>

\* match stream: the Err arm prints and returns.
UnitStart(c) ==
    /\ units[c].pc = "spawned"
    /\ units' = [units EXCEPT ![c] =
                    IF units[c].stream = "Ok"
                    THEN [@ EXCEPT !.pc = "read_request"]
                    ELSE Drop(@, "finished")]
    /\ UNCHANGED <<args, config, files, mainpc>>

\* One iteration of the loop of read_http_request, enabled once read_line
\* can return: a LF is buffered or received, or the client has closed.  A
\* read of the socket takes all that has been received into the BufReader.
\* On the empty line read_http_request returns, its BufReader is dropped,
\* and read_request parses the lines.
read_line(u) ==
    LET buffered == find(u.rbuf, LF) > 0
        buf == IF buffered THEN u.rbuf ELSE u.rbuf \o u.sock
        i == find(buf, LF)
        line == IF i = 0 THEN buf ELSE SubSeq(buf, 1, i)
    IN  [ ready |-> i > 0 \/ (u.eof /\ u.tosend = <<>>),
          line |-> line,
          rbuf |-> SubSeq(buf, Len(line) + 1, Len(buf)),
          sock |-> IF buffered THEN u.sock ELSE <<>>,
          taken |-> IF buffered THEN u.taken ELSE u.taken + Len(u.sock) ]

\* Mutant: a request that fails to parse is answered 400 Bad Request.
expect_request_or_400(us, c, r) ==
    IF r.ok
    THEN [us EXCEPT ![c].rbuf = <<>>, ![c].lines = <<>>,
                    ![c].req = Some(r.val), ![c].pc = "handle"]
    ELSE [us EXCEPT ![c] =
             Drop([@ EXCEPT !.out = S_HTTP11 \o SP \o CODE_400_BAD_REQUEST
                                    \o CRLF \o CRLF,
                            !.wcalls = @ + 1],
                  "finished")]

\* read_request(&mut stream).expect(..): the request, or a panic.
expect_request(us, c, r) ==
    IF r.ok
    THEN [us EXCEPT ![c].rbuf = <<>>, ![c].lines = <<>>,
                    ![c].req = Some(r.val), ![c].pc = "handle"]
    ELSE panic(us, c, r.err)

\* Mutant: a line that ends in LF alone is taken as it is.
ReadLine_accepts_lf(c) ==
    /\ units[c].pc = "read_request"
    /\ \E r \in {read_line(units[c])} :
          LET line == IF ends_with(r.line, CRLF) THEN strip_suffix(r.line, CRLF)
                      ELSE strip_suffix(r.line, LF)
              read == [units EXCEPT ![c].rbuf = r.rbuf, ![c].sock = r.sock,
                                    ![c].taken = r.taken]
          IN  /\ r.ready
              /\ units' =
                   IF line = None
                   THEN expect_request(read, c,
                            read_request(Err("Unexpected suffix")))
                   ELSE IF unwrap(line) = <<>>
                   THEN expect_request(read, c, read_request(Ok(units[c].lines)))
                   ELSE [read EXCEPT ![c].lines = Append(@, unwrap(line))]
    /\ UNCHANGED <<args, config, files, mainpc>>

ReadLine(c) ==
    /\ units[c].pc = "read_request"
    /\ \E r \in {read_line(units[c])} :
          LET line == strip_suffix(r.line, CRLF)
              read == [units EXCEPT ![c].rbuf = r.rbuf, ![c].sock = r.sock,
                                    ![c].taken = r.taken]
          IN  /\ r.ready
              /\ units' =
                   IF line = None
                   THEN expect_request(read, c,
                            read_request(Err("Unexpected suffix")))
                   ELSE IF unwrap(line) = <<>>
                   THEN expect_request(read, c, read_request(Ok(units[c].lines)))
                   ELSE [read EXCEPT ![c].lines = Append(@, unwrap(line))]
    /\ UNCHANGED <<args, config, files, mainpc>>

\* read_line returns Err (a reset connection, bytes that are not UTF-8).
ReadError(c) ==
    /\ units[c].pc = "read_request"
    /\ units' = expect_request(units, c,
                    read_request(Err("Failed reading http request")))
    /\ UNCHANGED <<args, config, files, mainpc>>

\* Mutant: the files route unwraps the base directory before it tests it.
Handle_unwraps_directory(c) ==
    /\ units[c].pc = "handle"
    /\ units' =
         IF /\ unwrap(units[c].req).method = "Get"
            /\ starts_with(unwrap(units[c].req).path, S_FILES_PREFIX)
            /\ config.directory = None
         THEN panic(units, c, "unwrap on None")
         ELSE [units EXCEPT
                  ![c].res = Some(handle(unwrap(units[c].req), config, files)),
                  ![c].pc = "write_response"]
    /\ UNCHANGED <<args, config, files, mainpc>>

Handle(c) ==
    /\ units[c].pc = "handle"
    /\ units' = [units EXCEPT
                    ![c].res = Some(handle(unwrap(units[c].req), config, files)),
                    ![c].pc = "write_response"]
    /\ UNCHANGED <<args, config, files, mainpc>>

\* write_response, first write_all: the status line, the headers, the
\* empty line.
WriteHead(c) ==
    LET u == units[c]
        response == unwrap(u.res)
        called == [units EXCEPT ![c].wcalls = @ + 1]
    IN  /\ u.pc = "write_response"
        /\ \/ \E order \in Orders(response.headers) :
                units' = [called EXCEPT
                             ![c].out = @ \o response_head(response, order),
                             ![c].pc = "write_content"]
           \/ units' = panic([called EXCEPT ![c].torn = TRUE], c,
                             "Failed writing response")
        /\ UNCHANGED <<args, config, files, mainpc>>

\* Mutant: after the response the unit reads the next request.
WriteContent_keep_alive(c) ==
    LET u == units[c]
    IN  /\ u.pc = "write_content"
        /\ \/ units' = [units EXCEPT ![c] =
                           [@ EXCEPT !.out = @ \o unwrap(u.res).content,
                                     !.req = None, !.res = None,
                                     !.pc = "read_request"]]
           \/ units' = panic([units EXCEPT ![c].torn = TRUE], c,
                             "Failed writing response")
        /\ UNCHANGED <<args, config, files, mainpc>>

\* write_response, second write_all: the body; then the closure returns.
WriteContent(c) ==
    LET u == units[c]
    IN  /\ u.pc = "write_content"
        /\ \/ units' = [units EXCEPT ![c] =
                           Drop([@ EXCEPT !.out = @ \o unwrap(u.res).content],
                                "finished")]
           \/ units' = panic([units EXCEPT ![c].torn = TRUE], c,
                             "Failed writing response")
        /\ UNCHANGED <<args, config, files, mainpc>>

\* One connection, drawn from every script.
Next ==
    \/ Incoming(Scripts, 1)
    \/ IncomingErr(1)
    \/ \E c \in Ids : ClientSend(c)
    \/ \E c \in Ids : ClientClose(c)
    \/ \E c \in Ids : UnitStart(c)
    \/ \E c \in Ids : ReadLine(c)
    \/ \E c \in Ids : ReadError(c)
    \/ \E c \in Ids : Handle(c)
    \/ \E c \in Ids : WriteHead(c)
    \/ \E c \in Ids : WriteContent(c)

Spec == Init /\ [][Next]_vars

\* Several connections, drawn from a few scripts.
NextConc ==
    \/ Incoming(ConcScripts, MaxConns)
    \/ IncomingErr(MaxConns)
    \/ \E c \in Ids : ClientSend(c)
    \/ \E c \in Ids : ClientClose(c)
    \/ \E c \in Ids : UnitStart(c)
    \/ \E c \in Ids : ReadLine(c)
    \/ \E c \in Ids : ReadError(c)
    \/ \E c \in Ids : Handle(c)
    \/ \E c \in Ids : WriteHead(c)
    \/ \E c \in Ids : WriteContent(c)

SpecConc == Init /\ [][NextConc]_vars

\* The steps of the thread of unit c.  The operating system schedules every
\* thread that can run: weak fairness of each thread's steps.
Thread(c) ==
    /\ c \in Ids
    /\ \/ UnitStart(c)
       \/ ReadLine(c)
       \/ Handle(c)
       \/ WriteHead(c)
       \/ WriteContent(c)

SpecFair ==
    Init /\ [][NextConc]_vars /\ \A c \in 1..MaxConns : WF_vars(Thread(c))

(***************************************************************************)
(* Vocabulary of the properties.                                           *)
(***************************************************************************)
\* The units whose handler has returned, with their request and response.
Handled == {c \in Ids : units[c].res # None}
Req(c) == unwrap(units[c].req)
Res(c) == unwrap(units[c].res)

\* The text of s after its first n bytes.
After(s, n) == SubSeq(s, n + 1, Len(s))

Digits == {"0", "1", "2", "3", "4", "5", "6", "7", "8", "9"}
DigitValue(d) == CHOOSE n \in 0..9 : Digit(n) = d

RECURSIVE DecimalValue(_)
DecimalValue(s) ==
    IF s = <<>> THEN 0
    ELSE 10 * DecimalValue(SubSeq(s, 1, Len(s) - 1)) + DigitValue(s[Len(s)])

\* s is a decimal numeral of n.
IsDecimalOf(s, n) ==
    /\ s # <<>>
    /\ \A i \in 1..Len(s) : s[i] \in Digits
    /\ DecimalValue(s) = n

HasHeader(r, name, value) == name \in DOMAIN r.headers /\ r.headers[name] = value

\* Content-Type and Content-Length describe the body.
Describes(r, type) ==
    /\ HasHeader(r, S_CONTENT_TYPE, type)
    /\ S_CONTENT_LENGTH \in DOMAIN r.headers
    /\ IsDecimalOf(r.headers[S_CONTENT_LENGTH], Len(r.content))

\* No headers and no body.
Bare(r) == DOMAIN r.headers = {} /\ r.content = <<>>

IsGet(c, path) == Req(c).method = "Get" /\ Req(c).path = path
IsGetUnder(c, prefix) == Req(c).method = "Get" /\ starts_with(Req(c).path, prefix)

(***************************************************************************)
(* C1.  Every parsed GET request whose path starts with /echo/ is answered *)
(* 200 OK with the rest of the path, byte for byte, as body (empty, or     *)
(* with further slashes), Content-Type text/plain and Content-Length the   *)
(* byte length of that rest.                                               *)
(***************************************************************************)
C1_EchoReturnsSuffix ==
    \A c \in Handled :
        IsGetUnder(c, S_ECHO_PREFIX) =>
            /\ Res(c).code = CODE_200_OK
            /\ Res(c).content = After(Req(c).path, Len(S_ECHO_PREFIX))
            /\ Describes(Res(c), S_TEXT_PLAIN)

C1_Witness ==
    \E c \in Handled :
        /\ IsGet(c, S_ECHO_PREFIX \o <<"a", "/", "b">>)
        /\ Res(c).content = <<"a", "/", "b">>
        /\ Res(c).headers[S_CONTENT_LENGTH] = <<"3">>

(***************************************************************************)
(* C2.  A parsed GET /user-agent is answered 200 with the value of the     *)
(* header named exactly User-Agent as text/plain body when the header map  *)
(* has that key, and 400 without headers or body when it has not, a name   *)
(* in another case not counting.                                           *)
(***************************************************************************)
C2_UserAgentExactName ==
    \A c \in Handled :
        IsGet(c, S_USER_AGENT_PATH) =>
            IF S_USER_AGENT \in DOMAIN Req(c).headers
            THEN /\ Res(c).code = CODE_200_OK
                 /\ Res(c).content = Req(c).headers[S_USER_AGENT]
                 /\ Describes(Res(c), S_TEXT_PLAIN)
            ELSE /\ Res(c).code = CODE_400_BAD_REQUEST
                 /\ Bare(Res(c))

C2_Witness ==
    \E c \in Handled :
        /\ IsGet(c, S_USER_AGENT_PATH)
        /\ DOMAIN Req(c).headers = {<<"u", "s", "e", "r", "-", "a", "g", "e", "n", "t">>}
        /\ Res(c).code = CODE_400_BAD_REQUEST

(***************************************************************************)
(* C3.  A parsed GET under /files/ is answered 500 without body when no    *)
(* base directory is configured, whatever the filesystem holds; else 200   *)
(* with the bytes of <base>/<name> as application/octet-stream body and    *)
(* their number as Content-Length when the read succeeds; else 404 without *)
(* body.  No other status occurs.                                          *)
(***************************************************************************)
C3_FilesStatus ==
    \A c \in Handled :
        IsGetUnder(c, S_FILES_PREFIX) =>
            LET name == After(Req(c).path, Len(S_FILES_PREFIX))
            IN  /\ Res(c).code \in {CODE_200_OK, CODE_404_NOT_FOUND,
                                    CODE_500_INTERNAL_SERVER_ERROR}
                /\ IF config.directory = None
                   THEN /\ Res(c).code = CODE_500_INTERNAL_SERVER_ERROR
                        /\ Res(c).content = <<>>
                   ELSE LET full == unwrap(config.directory) \o <<"/">> \o name
                        IN  IF full \in DOMAIN files
                            THEN /\ Res(c).code = CODE_200_OK
                                 /\ Res(c).content = files[full]
                                 /\ Describes(Res(c), S_OCTET_STREAM)
                            ELSE /\ Res(c).code = CODE_404_NOT_FOUND
                                 /\ Res(c).content = <<>>

C3_Witness ==
    \E c \in Handled :
        /\ IsGet(c, S_FILES_PREFIX \o <<"a">>)
        /\ Res(c).code = CODE_200_OK
        /\ Len(Res(c).content) = 12

(***************************************************************************)
(* C4.  A parsed GET / is answered 200 without headers or body, whatever   *)
(* headers the request carries and whatever the configuration.             *)
(***************************************************************************)
C4_RootBare200 ==
    \A c \in Handled :
        IsGet(c, S_ROOT) => Res(c).code = CODE_200_OK /\ Bare(Res(c))

C4_Witness ==
    \E c \in Handled :
        /\ IsGet(c, S_ROOT)
        /\ S_USER_AGENT \in DOMAIN Req(c).headers
        /\ config.directory # None

(***************************************************************************)
(* C5.  Every parsed POST request is answered 404 without headers or body, *)
(* for every path, header set and configuration: no POST gets the answer   *)
(* of the echo, user-agent or files handler.                               *)
(***************************************************************************)
C5_PostAlways404 ==
    \A c \in Handled :
        Req(c).method = "Post" =>
            Res(c).code = CODE_404_NOT_FOUND /\ Bare(Res(c))

C5_Witness ==
    \E c \in Handled :
        /\ Req(c).method = "Post"
        /\ Req(c).path = S_ECHO_PREFIX \o <<"a">>
        /\ S_USER_AGENT \in DOMAIN Req(c).headers

(***************************************************************************)
(* C6.  GET dispatch takes the first match of: exactly /, exactly          *)
(* /user-agent, prefix /echo/, prefix /files/, fallback.  The route a      *)
(* request takes is a function of its path alone: under every header set   *)
(* and configuration the answer is one the handler of that route gives,    *)
(* and every path no route matches (/echo, /files, /user-agent/, ...) is   *)
(* answered 404 without headers or body.                                   *)
(***************************************************************************)
Route(path) ==
    IF path = S_ROOT THEN "root"
    ELSE IF path = S_USER_AGENT_PATH THEN "user_agent"
    ELSE IF starts_with(path, S_ECHO_PREFIX) THEN "echo"
    ELSE IF starts_with(path, S_FILES_PREFIX) THEN "files"
    ELSE "not_found"

AnswerOf(route, r) ==
    CASE route = "root" -> r.code = CODE_200_OK /\ Bare(r)
      [] route = "user_agent" ->
            \/ r.code = CODE_200_OK /\ Describes(r, S_TEXT_PLAIN)
            \/ r.code = CODE_400_BAD_REQUEST /\ Bare(r)
      [] route = "echo" -> r.code = CODE_200_OK /\ Describes(r, S_TEXT_PLAIN)
      [] route = "files" ->
            \/ r.code = CODE_200_OK /\ Describes(r, S_OCTET_STREAM)
            \/ r.code = CODE_404_NOT_FOUND /\ Bare(r)
            \/ r.code = CODE_500_INTERNAL_SERVER_ERROR /\ Bare(r)
      [] route = "not_found" -> r.code = CODE_404_NOT_FOUND /\ Bare(r)

C6_GetDispatch ==
    \A c \in Handled :
        Req(c).method = "Get" => AnswerOf(Route(Req(c).path), Res(c))

C6_Witness ==
    \E c \in Handled :
        /\ IsGet(c, <<"/", "e", "c", "h", "o">>)
        /\ Req(c).headers # EmptyMap
        /\ config.directory # None
        /\ Res(c).code = CODE_404_NOT_FOUND

(***************************************************************************)
(* C7.  A connection whose request does not parse (no start line, fewer    *)
(* than three tokens, a method other than GET or POST, a failure of the    *)
(* line reader) never has a byte written to it: write_response is not      *)
(* called, no write is begun, and the unit ends by a panic.                *)
(***************************************************************************)
C7_NoBytesWithoutRequest ==
    \A c \in Ids :
        units[c].req = None =>
            /\ units[c].out = <<>>
            /\ ~units[c].torn
            /\ units[c].wcalls = 0
            /\ units[c].pc \in {"spawned", "read_request", "panicked", "finished"}
            /\ units[c].pc = "finished" => units[c].stream = "Err"

C7_Witness ==
    \E c \in Ids :
        /\ units[c].pc = "panicked"
        /\ units[c].err = Some("version not found")
        /\ units[c].out = <<>>

(***************************************************************************)
(* C8.  A connection whose request parsed gets a response: the handler     *)
(* returns one with status 200, 400, 404 or 500, write_response is called  *)
(* exactly once with it before the connection closes, and the unit ends    *)
(* short of the complete response only when a write fails.                 *)
(***************************************************************************)
StatusCodes ==
    {CODE_200_OK, CODE_400_BAD_REQUEST, CODE_404_NOT_FOUND,
     CODE_500_INTERNAL_SERVER_ERROR}

C8_ParsedIsAnswered ==
    \A c \in Ids :
        units[c].req # None =>
            /\ units[c].wcalls <= 1
            /\ units[c].res # None => Res(c).code \in StatusCodes
            /\ Terminal(units[c]) => units[c].res # None /\ units[c].wcalls = 1
            /\ units[c].pc = "panicked" => units[c].torn
            /\ units[c].pc = "finished" =>
                 \E order \in Orders(Res(c).headers) :
                    units[c].out = Req(c).version \o <<" ">> \o Res(c).code
                                   \o CRLF \o join_headers(Res(c).headers, order)
                                   \o CRLF \o Res(c).content

C8_Witness ==
    \E c \in Ids :
        /\ units[c].pc = "finished"
        /\ units[c].req # None
        /\ IsGetUnder(c, S_FILES_PREFIX)
        /\ Res(c).code = CODE_500_INTERNAL_SERVER_ERROR
        /\ units[c].wcalls = 1

(***************************************************************************)
(* C9.  A connection goes Reading -> Responding -> terminal, or Reading -> *)
(* terminal, and never back: one request at most is parsed, one response   *)
(* at most is written, and after the response the connection is closed,    *)
(* whatever Connection header the request has and whatever bytes follow    *)
(* its header block.                                                       *)
(***************************************************************************)
Phase(u) ==
    IF u.pc \in {"spawned", "read_request"} THEN "Reading"
    ELSE IF u.pc \in {"handle", "write_response", "write_content"}
    THEN "Responding"
    ELSE "terminal"

C9_Step ==
    \A c \in DOMAIN units :
        LET u == units[c]
            v == units'[c]
        IN  /\ \/ Phase(v) = Phase(u)
               \/ Phase(u) = "Reading" /\ Phase(v) \in {"Responding", "terminal"}
               \/ Phase(u) = "Responding" /\ Phase(v) = "terminal"
            /\ u.req # None => v.req = u.req
            /\ u.res # None => v.res = u.res
            /\ v.wcalls <= 1
            /\ Phase(u) = "terminal" => v.out = u.out /\ v.pc = u.pc

C9_OneRequestPerConnection == [][C9_Step]_vars

C9_Witness ==
    \E c \in Ids :
        /\ units[c].pc = "finished"
        /\ units[c].input =
             S_GET_ROOT_11 \o CRLF \o CRLF \o S_GET_ECHO_A_10 \o CRLF \o CRLF
        /\ units[c].out = S_HTTP11 \o <<" ">> \o CODE_200_OK \o CRLF \o CRLF

(***************************************************************************)
(* C10.  A failure of one handling unit (its request does not parse, a     *)
(* write fails, its accept failed) ends that unit alone: the step changes  *)
(* no other unit and leaves main in its accept loop, and whatever a unit   *)
(* writes is the answer to its own input, whichever other units failed.    *)
(***************************************************************************)
\* The header block of well-framed bytes: the lines before the empty line.
BlockLines(bytes) ==
    LET toks == split(bytes, CRLF)
        k == CHOOSE i \in 1..Len(toks) :
                toks[i] = <<>> /\ \A j \in 1..(i - 1) : toks[j] # <<>>
    IN  SubSeq(toks, 1, k - 1)

OwnAnswer(u, order) ==
    LET r == handle(read_request(Ok(BlockLines(u.input))).val, config, files)
    IN  response_head(r, order) \o r.content

Fails(c) ==
    \/ units[c].pc # "panicked" /\ units'[c].pc = "panicked"
    \/ units[c].stream = "Err" /\ units[c].pc # "finished"
       /\ units'[c].pc = "finished"

C10_State ==
    /\ mainpc = "incoming"
    /\ \A c \in Ids :
          units[c].pc = "finished" /\ units[c].stream = "Ok" =>
             \E order \in Orders(Res(c).headers) :
                units[c].out = OwnAnswer(units[c], order)

C10_Step ==
    \A c \in DOMAIN units :
        Fails(c) =>
            /\ mainpc' = "incoming"
            /\ \A d \in DOMAIN units \ {c} : units'[d] = units[d]

C10_FailureIsLocal == [] C10_State /\ [][C10_Step]_vars

C10_Witness ==
    \E c, d \in Ids :
        /\ units[c].pc = "panicked"
        /\ units[c].err = Some("Unexpected method")
        /\ units[d].pc = "finished"
        /\ units[d].out # <<>>

(***************************************************************************)
(* C11.  The accept loop waits for no connection: a unit that has received *)
(* the whole of a valid request has its response written and its           *)
(* connection closed in the end, under fair scheduling of the threads,     *)
(* however many other units are blocked reading from a silent client.  The *)
(* only other end of such a unit is a failed read or write on its own      *)
(* connection.                                                             *)
(***************************************************************************)
\* The bytes hold a header block, ended by the empty line, that parses.
CompleteValid(bytes) ==
    /\ starts_with(bytes, CRLF) \/ find(bytes, CRLF \o CRLF) > 0
    /\ read_request(Ok(BlockLines(bytes))).ok

Received(d) ==
    /\ d \in Ids
    /\ units[d].stream = "Ok"
    /\ CompleteValid(units[d].input)
    /\ units[d].tosend = <<>>

Answered(d) ==
    /\ d \in Ids
    /\ units[d].stream = "Ok"
    /\ units[d].pc = "finished"
    /\ \E order \in Orders(Res(d).headers) :
          units[d].out = OwnAnswer(units[d], order)

TransportFailed(d) ==
    /\ d \in Ids
    /\ units[d].pc = "panicked"
    /\ units[d].err \in {Some("Failed reading http request"),
                         Some("Failed writing response")}

C11_ValidRequestIsAnswered ==
    \A d \in 1..MaxConns : Received(d) ~> (Answered(d) \/ TransportFailed(d))

\* The silent client has sent all it will send and keeps its side open.
BlockedReading(c) ==
    /\ units[c].pc = "read_request"
    /\ units[c].tosend = <<>> /\ units[c].sock = <<>> /\ ~units[c].close
    /\ find(units[c].rbuf, LF) = 0

C11_Witness ==
    \E c, d \in Ids :
        /\ c < d
        /\ BlockedReading(c)
        /\ Answered(d)

(***************************************************************************)
(* C12.  The bytes of a written response are the version token of the      *)
(* request, one space, the status code with its reason phrase, CRLF; one   *)
(* line "name: value" CRLF for each entry of the header map, each entry    *)
(* once, in some order; an empty line; the body, and nothing after it.     *)
(* After the first write the status line, the headers and the empty line   *)
(* are written; after the second the body follows them.                    *)
(***************************************************************************)
\* The third token of the first line the client sent.
VersionToken(u) == split(split(u.input, CRLF)[1], SP)[3]

RECURSIVE Flat(_)
Flat(ss) == IF ss = <<>> THEN <<>> ELSE Head(ss) \o Flat(Tail(ss))

\* bytes is made of the status line, one line per header in the order o,
\* the empty line and body.
Serialized(bytes, u, r, o, body) ==
    bytes = Flat(<<VersionToken(u), SP, r.code, CRLF>>)
            \o Flat([i \in DOMAIN o |->
                        Flat(<<o[i], COLON_SP, r.headers[o[i]], CRLF>>)])
            \o CRLF \o body

EachOnce(h) == {o \in [1..Cardinality(DOMAIN h) -> DOMAIN h] :
                   \A k \in DOMAIN h : \E i \in DOMAIN o : o[i] = k}

C12_WrittenBytes ==
    \A c \in Handled :
       /\ units[c].pc = "write_content" =>
             \E o \in EachOnce(Res(c).headers) :
                Serialized(units[c].out, units[c], Res(c), o, <<>>)
       /\ units[c].pc = "finished" =>
             \E o \in EachOnce(Res(c).headers) :
                Serialized(units[c].out, units[c], Res(c), o, Res(c).content)

\* A response to an HTTP/1.0 request, with headers and a body, is written.
C12_Witness ==
    \E c \in Handled :
       /\ units[c].pc = "finished"
       /\ VersionToken(units[c]) = S_HTTP10
       /\ Cardinality(DOMAIN Res(c).headers) = 2
       /\ Res(c).content # <<>>

(***************************************************************************)
(* C13.  Round trip.  The bytes written for a response, read back by the   *)
(* line reader, give a first line and then lines which, split at their     *)
(* first ": " as read_request splits header lines, make exactly the header *)
(* map of the response; the bytes after the empty line are its body.       *)
(***************************************************************************)
\* A stream on which bytes have arrived and which the peer has closed.
Arrived(bytes) == [Unit("Ok", Script(bytes, TRUE)) EXCEPT
                      !.tosend = <<>>, !.sock = bytes, !.eof = TRUE]

\* read_http_request run to its return on the stream u, lines read so far:
\* the lines, and the bytes taken from the stream and not returned.
RECURSIVE read_http_request(_, _)
read_http_request(u, lines) ==
    LET r == read_line(u)
        line == strip_suffix(r.line, CRLF)
    IN  IF line = None THEN Err("Unexpected suffix")
        ELSE IF unwrap(line) = <<>>
        THEN Ok([lines |-> lines, rbuf |-> r.rbuf, sock |-> r.sock,
                 taken |-> r.taken])
        ELSE read_http_request([u EXCEPT !.rbuf = r.rbuf, !.sock = r.sock,
                                         !.taken = r.taken],
                               Append(lines, unwrap(line)))

Reread(bytes) == read_http_request(Arrived(bytes), <<>>)

C13_RoundTrip ==
    \A c \in Handled :
       units[c].pc = "finished" =>
          /\ Reread(units[c].out).ok
          /\ Len(Reread(units[c].out).val.lines) >= 1
          /\ collect_headers(Tail(Reread(units[c].out).val.lines), EmptyMap)
                = Res(c).headers
          /\ Reread(units[c].out).val.rbuf \o Reread(units[c].out).val.sock
                = Res(c).content

\* A written response with headers whose body holds a CRLF.
C13_Witness ==
    \E c \in Handled :
       /\ units[c].pc = "finished"
       /\ DOMAIN Res(c).headers # {}
       /\ find(Res(c).content, CRLF) > 0

(***************************************************************************)
(* C14.  As claimed: a GET request on the echo route is answered 200 when  *)
(* a message follows the prefix /echo/, and 400 when the path is /echo/    *)
(* with nothing after the prefix.                                          *)
(***************************************************************************)
C14_EmptyMessageIs400 ==
    \A c \in Handled :
        IsGetUnder(c, S_ECHO_PREFIX) =>
            Res(c).code = IF Req(c).path = S_ECHO_PREFIX
                          THEN CODE_400_BAD_REQUEST
                          ELSE CODE_200_OK

(***************************************************************************)
(* C14, amended.  A GET request on the echo route is answered 200 whether  *)
(* or not a message follows the prefix: the path /echo/ is answered 200    *)
(* with an empty body and Content-Length 0, never 400.                     *)
(***************************************************************************)
C14_EchoAlways200 ==
    \A c \in Handled :
        IsGetUnder(c, S_ECHO_PREFIX) =>
            /\ Res(c).code = CODE_200_OK
            /\ Req(c).path = S_ECHO_PREFIX =>
                  /\ Res(c).content = <<>>
                  /\ HasHeader(Res(c), S_CONTENT_LENGTH, <<"0">>)

\* GET /echo/ has been handled.
C14_Witness == \E c \in Handled : IsGet(c, S_ECHO_PREFIX)

(***************************************************************************)
(* C15.  Every request that read_request returns has a path that starts    *)
(* with "/", whatever the lines it was parsed from.                        *)
(***************************************************************************)
C15_PathStartsWithSlash ==
    \A c \in Ids :
        units[c].req # None => starts_with(Req(c).path, SLASH)

(***************************************************************************)
(* C16.  When read_http_request returns lines, they are the lines of the   *)
(* stream before its first empty line, each of them ended by CRLF, in      *)
(* stream order and without their CRLF; the empty line is read from the    *)
(* stream and is not among them.  When it fails on a line, that is the     *)
(* first line which does not end in CRLF (it ends in LF alone, or the      *)
(* stream ends first), every line before it ends in CRLF and is not        *)
(* empty, and no line is returned: no request is made of them.             *)
(***************************************************************************)
CR == <<"\r">>

\* The stream cut at each LF: all but the last piece are the lines, without
\* their LF; the last is what follows the last LF.
Pieces(bytes) == split(bytes, LF)

\* The first k - 1 lines end in CRLF and are not empty.
LinesBefore(seg, k) ==
    \A j \in 1..(k - 1) : ends_with(seg[j], CR) /\ seg[j] # CR

C16_Step ==
    \A c \in Ids :
       (units[c].pc = "read_request" /\ units'[c].pc # "read_request") =>
          LET seg == Pieces(units[c].input)
              n == Len(seg)
          IN  IF units'[c].err = Some("Failed reading http request") THEN TRUE
              ELSE IF units'[c].err = Some("Unexpected suffix")
              THEN /\ \E k \in 1..n :
                         /\ LinesBefore(seg, k)
                         /\ IF k < n THEN ~ends_with(seg[k], CR)
                            ELSE units[c].eof /\ units[c].tosend = <<>>
                   /\ units'[c].req = None
              ELSE \E k \in 1..(n - 1) :
                      /\ LinesBefore(seg, k)
                      /\ seg[k] = CR
                      /\ units[c].lines =
                            [j \in 1..(k - 1) |->
                                SubSeq(seg[j], 1, Len(seg[j]) - 1)]
                      /\ units'[c].taken >=
                            Len(Flat([j \in 1..k |-> seg[j] \o LF]))

C16_LinesBeforeEmptyLine == [][C16_Step]_vars

\* The reader has failed on the second line, the first one ending in CRLF.
C16_Witness ==
    \E c \in Ids :
       /\ units[c].err = Some("Unexpected suffix")
       /\ Len(Pieces(units[c].input)) >= 2
       /\ ends_with(Pieces(units[c].input)[1], CR)
       /\ Pieces(units[c].input)[1] # CR

(***************************************************************************)
(* C17.  When the line reader has returned, every byte the client sends    *)
(* after the empty line that ends the header block is still unread: it is  *)
(* on the stream or not yet sent, none was taken by the reader.            *)
(***************************************************************************)
\* The length of the header block of bytes, its empty line included.
HeaderBlockLen(bytes) ==
    LET seg == Pieces(bytes)
        k == CHOOSE i \in 1..Len(seg) :
                seg[i] = CR /\ \A j \in 1..(i - 1) : seg[j] # CR
    IN  Len(Flat([j \in 1..k |-> seg[j] \o LF]))

C17_NothingBeyondEmptyLine ==
    \A c \in Ids :
        units[c].pc = "handle" =>
            /\ units[c].taken = HeaderBlockLen(units[c].input)
            /\ units[c].sock \o units[c].tosend
                  = After(units[c].input, HeaderBlockLen(units[c].input))

(***************************************************************************)
(* C18.  The start line is cut at every single space.  When its first      *)
(* token is exactly GET or POST and it has at least three tokens, the      *)
(* request is parsed with that method, the second token as path and the    *)
(* third as version, whatever tokens follow.  When its first token is      *)
(* anything else (get, PUT) the parse fails on the method, whether or not  *)
(* a path and a version are there; a missing path or version is found      *)
(* only after the method was accepted.                                     *)
(***************************************************************************)
\* read_http_request returns its lines in this step of unit c.
ReturnsLines(c) ==
    /\ units[c].pc = "read_request" /\ units'[c].pc # "read_request"
    /\ units'[c].err \notin {Some("Failed reading http request"),
                             Some("Unexpected suffix")}

RECURSIVE Joined(_, _)
Joined(toks, sep) ==
    IF Len(toks) = 1 THEN toks[1]
    ELSE toks[1] \o sep \o Joined(Tail(toks), sep)

MethodOf(tok) == IF tok = S_GET THEN "Get" ELSE "Post"

C18_Step ==
    \A c \in Ids :
       (ReturnsLines(c) /\ units[c].lines # <<>>) =>
          LET toks == split(units[c].lines[1], SP)
          IN  /\ Joined(toks, SP) = units[c].lines[1]
              /\ \A i \in DOMAIN toks : find(toks[i], SP) = 0
              /\ IF toks[1] \notin {S_GET, S_POST}
                 THEN units'[c].err = Some("Unexpected method")
                 ELSE IF Len(toks) >= 3
                 THEN /\ units'[c].pc = "handle"
                      /\ units'[c].req # None
                      /\ unwrap(units'[c].req).method = MethodOf(toks[1])
                      /\ unwrap(units'[c].req).path = toks[2]
                      /\ unwrap(units'[c].req).version = toks[3]
                 ELSE units'[c].err \in {Some("path not found"),
                                         Some("version not found")}

C18_StartLineTokens == [][C18_Step]_vars

\* A start line of more than three tokens has been parsed.
C18_Witness ==
    \E c \in Ids :
       /\ units[c].req # None
       /\ Len(split(Pieces(units[c].input)[1], SP)) > 3

(***************************************************************************)
(* C19.  The lines after the start line never make the parse fail.  A      *)
(* request whose start line is accepted is parsed whatever those lines     *)
(* are, and its header map holds exactly the names of the lines that       *)
(* contain ": ", the name being the text before the first ": " of the      *)
(* line, mapped to the text after it; a line without ": " adds nothing;    *)
(* of several lines with one name the last gives the value.                *)
(***************************************************************************)
NameOf(l) == SubSeq(l, 1, find(l, COLON_SP) - 1)
ValueOf(l) == SubSeq(l, find(l, COLON_SP) + Len(COLON_SP), Len(l))

\* The lines of ls that contain ": ".
Separated(ls) == {i \in 1..Len(ls) : find(ls[i], COLON_SP) > 0}

\* h is the map the lines ls describe.
HeadersOf(h, ls) ==
    /\ DOMAIN h = {NameOf(ls[i]) : i \in Separated(ls)}
    /\ \A i \in Separated(ls) :
          (\A j \in Separated(ls) : j > i => NameOf(ls[j]) # NameOf(ls[i]))
             => h[NameOf(ls[i])] = ValueOf(ls[i])

C19_Step ==
    \A c \in Ids :
       (ReturnsLines(c) /\ units[c].lines # <<>>) =>
          LET toks == split(units[c].lines[1], SP)
          IN  (toks[1] \in {S_GET, S_POST} /\ Len(toks) >= 3) =>
                 /\ units'[c].req # None
                 /\ HeadersOf(unwrap(units'[c].req).headers,
                              Tail(units[c].lines))

C19_HeaderLines == [][C19_Step]_vars

\* A request has been parsed from two lines of one name and different
\* values.
C19_Witness ==
    \E c \in Ids :
       /\ units[c].req # None
       /\ \E i, j \in 2..(Len(Pieces(units[c].input)) - 2) :
             /\ i < j
             /\ find(Pieces(units[c].input)[i], COLON_SP) > 0
             /\ NameOf(Pieces(units[c].input)[i])
                   = NameOf(Pieces(units[c].input)[j])
             /\ ValueOf(Pieces(units[c].input)[i])
                   # ValueOf(Pieces(units[c].input)[j])

(***************************************************************************)
(* C20.  Every response that handle returns either has no header and no    *)
(* body, or has exactly the headers Content-Type and Content-Length, the   *)
(* latter the decimal byte length of its body.  A response of status 400,  *)
(* 404 or 500 has no header and no body.  Status 400 is returned only to   *)
(* GET /user-agent without a User-Agent header: never by the echo or the   *)
(* files handler.                                                          *)
(***************************************************************************)
C20_ContentBookkeeping ==
    \A c \in Handled :
       /\ \/ Bare(Res(c))
          \/ /\ DOMAIN Res(c).headers = {S_CONTENT_TYPE, S_CONTENT_LENGTH}
             /\ IsDecimalOf(Res(c).headers[S_CONTENT_LENGTH],
                            Len(Res(c).content))
       /\ Res(c).code \in {CODE_400_BAD_REQUEST, CODE_404_NOT_FOUND,
                           CODE_500_INTERNAL_SERVER_ERROR} => Bare(Res(c))
       /\ Res(c).code = CODE_400_BAD_REQUEST =>
             /\ IsGet(c, S_USER_AGENT_PATH)
             /\ S_USER_AGENT \notin DOMAIN Req(c).headers

\* A request has been answered 400, and it carried header lines.
C20_Witness ==
    \E c \in Handled :
       /\ Res(c).code = CODE_400_BAD_REQUEST
       /\ DOMAIN Req(c).headers # {}

====
